---------------------------- MODULE Spec2Model ----------------------------
(***************************************************************************)
(* pictext: decode(input) of src/lib.rs as a state machine.                *)
(*                                                                         *)
(* The decoder reads a byte buffer through a bitstream_io BitReader        *)
(* (big-endian, one bit at a time) wrapped in BitReaderWrapper, which      *)
(* counts the bits in bit_count and drops one bit whenever bit_count is a  *)
(* multiple of 8.  decode() loops: one selector bit, then either a 7-bit   *)
(* control code or a graphical unit (two flags, optional offsets, the      *)
(* 4096-pixel body, a skip to the next multiple of 8).                     *)
(*                                                                         *)
(* One action models one stretch of decode(): the selector read, the       *)
(* control branch, the header of a graphical unit, the 64 iterations of    *)
(* the pixel loop that fill one word of the map, and the tail of the       *)
(* graphical branch.  An unwrap() of a failed read ends the run in         *)
(* pc = "panic".                                                           *)
(***************************************************************************)
EXTENDS Integers, Sequences, FiniteSets, TLC

(***************************************************************************)
(* Program constants.                                                      *)
(***************************************************************************)
\* a pixel loop that stops one pixel early
PixelsShort == 4096 - 1
Pixels == 4096
Words == 64
Levels == 6
RasterBytes == 512
\* a field of 3 bits
FieldBitsShort == 7 - 4
FieldBits == 7
RowPixels == 64

(***************************************************************************)
(* Bounds of the model.                                                    *)
(***************************************************************************)
MaxShort == 2
MaxTail == 2

(***************************************************************************)
(* Small helpers.                                                          *)
(***************************************************************************)
RECURSIVE Pow(_, _)
Pow(b, e) == IF e = 0 THEN 1 ELSE b * Pow(b, e - 1)

Bit(b) == IF b THEN 1 ELSE 0

None == << >>
Some(v) == << v >>

VARIABLES
    input,       \* the byte buffer handed to decode (never changes)
    pos,         \* bits the underlying BitReader has consumed
    bit_count,   \* BitReaderWrapper.bit_count
    output,      \* the Vec<Character> built so far
    pc,          \* where decode() is: loop, control, header, pixel, finish, done, panic
    x_offset, y_offset, map, value, erase,   \* locals of the graphical branch
    n,           \* the pixel the loop of line 149 is at
    trace,       \* history: the bits delivered (and the skip made) by the last step
    raws,        \* history: the raw pixel bits read in the current unit, in order
    decl,        \* history: the homogeneity declarations of the current unit
    body         \* history: data bits the bitmap body of the current unit has consumed

vars == << input, pos, bit_count, output, pc, x_offset, y_offset, map, value,
           erase, n, trace, raws, decl, body >>

(***************************************************************************)
(* The underlying bitstream_io BitReader<&[u8], BigEndian>.                *)
(***************************************************************************)
\* bit p of the buffer, most significant bit of each byte first
BitAt(buf, p) == (buf[(p \div 8) + 1] \div Pow(2, 7 - (p % 8))) % 2

\* a source that reports its end one byte early
RawReadBitEarly(buf, p) ==
    IF p + 8 < 8 * Len(buf)
    THEN [ok |-> TRUE, bit |-> BitAt(buf, p), pos |-> p + 1]
    ELSE [ok |-> FALSE, bit |-> 0, pos |-> p]

\* bitreader.read_bit(): Err at the end of the buffer
RawReadBit(buf, p) ==
    IF p < 8 * Len(buf)
    THEN [ok |-> TRUE, bit |-> BitAt(buf, p), pos |-> p + 1]
    ELSE [ok |-> FALSE, bit |-> 0, pos |-> p]

\* bitreader.skip(bits): Err (the rest is consumed) when fewer bits are left
RawSkip(buf, p, bits) ==
    IF p + bits <= 8 * Len(buf)
    THEN [ok |-> TRUE, pos |-> p + bits]
    ELSE [ok |-> FALSE, pos |-> 8 * Len(buf)]

(***************************************************************************)
(* BitReaderWrapper.  A reader value is [bit_count, pos]; every operation  *)
(* returns the reader after it, with what it delivered.                    *)
(***************************************************************************)
\* a wrapper that drops no bit
BoundaryNever(buf, rd) == rd

\* lines 45-48, 59-62, 77-80: at a multiple of 8 one bit is read and dropped
Boundary(buf, rd) ==
    IF rd.bit_count % 8 = 0
    THEN [bit_count |-> rd.bit_count + 1, pos |-> RawReadBit(buf, rd.pos).pos]
    ELSE rd

\* read_bit(), lines 44-51
ReadBit(buf, rd) ==
    LET b == Boundary(buf, rd)
        r == RawReadBit(buf, b.pos)
    IN  [ok |-> r.ok, bit |-> r.bit, at |-> b.pos,
         rd |-> [bit_count |-> b.bit_count + 1, pos |-> r.pos]]

\* read::<U>(bits), lines 53-71: most significant bit first; the unwrap of
\* line 64 panics (ok = FALSE) when the buffer ends.  ats is history: the
\* places in the buffer of the bits delivered, in order
RECURSIVE ReadLoop(_, _, _, _)
ReadLoop(buf, rd, bits, acc) ==
    IF bits = 0 THEN [ok |-> TRUE, val |-> acc, rd |-> rd, ats |-> << >>]
    ELSE LET b == Boundary(buf, rd)
             r == RawReadBit(buf, b.pos)
         IN  IF ~r.ok THEN [ok |-> FALSE, val |-> acc, rd |-> b, ats |-> << >>]
             ELSE LET rest == ReadLoop(buf, [bit_count |-> b.bit_count + 1, pos |-> r.pos],
                                       bits - 1, 2 * acc + r.bit)
                  IN  [rest EXCEPT !.ats = << b.pos >> \o @]

\* a field read that reads one bit too few
ReadShort(buf, rd, bits) == ReadLoop(buf, rd, bits - 1, 0)

Read(buf, rd, bits) == ReadLoop(buf, rd, bits, 0)

\* as_negative(bits) of bitstream_io for a signed type
AsNegative(v, bits) == v - Pow(2, bits - 1)

\* read_signed::<S>(bits), lines 73-89
ReadSigned(buf, rd, bits) ==
    LET b == Boundary(buf, rd)
        s == RawReadBit(buf, b.pos)
    IN  IF ~s.ok THEN [ok |-> FALSE, val |-> 0, rd |-> b, ats |-> << >>]
        ELSE LET m == Read(buf, [bit_count |-> b.bit_count + 1, pos |-> s.pos],
                           bits - 1)
             IN  [ok |-> m.ok,
                  val |-> IF s.bit = 1 THEN AsNegative(m.val, bits) ELSE m.val,
                  rd |-> m.rd,
                  ats |-> << b.pos >> \o m.ats]

\* skip(bits), lines 106-109
Skip(buf, rd, bits) ==
    LET s == RawSkip(buf, rd.pos, bits)
    IN  [ok |-> s.ok, rd |-> [bit_count |-> rd.bit_count + bits, pos |-> s.pos]]


(***************************************************************************)
(* The pixel loop of the graphical branch, lines 149-192.                  *)
(***************************************************************************)
\* the array q of lines 153-160: the six base-4 digits of n, coarsest first
Q(m) == << (m \div 1024) % 4, (m \div 256) % 4, (m \div 64) % 4,
           (m \div 16) % 4, (m \div 4) % 4, m % 4 >>

\* q.ends_with(&vec![0; k])
EndsWithZeros(q, k) == \A j \in (Len(q) - k + 1)..Len(q) : q[j] = 0

\* a condition that takes every pixel for the start of a block one level up
StartsBlockFiner(q, i) == EndsWithZeros(q, Len(q) - i - 1)

\* the condition of lines 165 and 185
StartsBlock(q, i) == EndsWithZeros(q, Len(q) - i)

\* map[index] |= 1 << shift (or |= 0): a 64-bit word is the set of its 1 bits
WordIndex(m) == m \div 64
Shift(m) == m % 64

\* the word index and the shift exchanged
OrBitSwapped(mp, m, bit) ==
    IF bit = 1 THEN [mp EXCEPT ![Shift(m)] = @ \cup {WordIndex(m)}] ELSE mp

OrBit(mp, m, bit) ==
    IF bit = 1 THEN [mp EXCEPT ![WordIndex(m)] = @ \cup {Shift(m)}] ELSE mp

\* history: what the loop did for pixel m.  kind is "probe", "fill" or "raw"
\* for a bit read at bit `at` of the buffer, "cached" for a pixel that took
\* the cached value without a read
Event(kind, m, level, bit, at) ==
    [kind |-> kind, n |-> m, level |-> level, bit |-> bit, at |-> at]

\* history: the bits of a field read by read or read_signed
FieldEvents(buf, kind, ats) ==
    [j \in 1..Len(ats) |-> Event(kind, -1, j, BitAt(buf, ats[j]), ats[j])]

\* The state of the loop: st = [ok, rd, value, erase, map, n, log, raws, decl],
\* ok = FALSE once an unwrap has panicked, n the pixel the loop is at.

\* lines 163-172 for pixel st.n, from level i on
RECURSIVE ProbeLoop(_, _, _, _)
ProbeLoop(buf, st, q, i) ==
    IF i = Len(q) \/ ~st.ok THEN st
    ELSE IF st.value = None /\ StartsBlock(q, i)
    THEN LET p == ReadBit(buf, st.rd)
         IN  IF ~p.ok
             THEN [st EXCEPT !.ok = FALSE, !.rd = p.rd]
             ELSE IF p.bit = 1
             THEN LET f == ReadBit(buf, p.rd)
                  IN  IF ~f.ok
                      THEN [st EXCEPT !.ok = FALSE, !.rd = f.rd,
                                      !.log = Append(@, Event("probe", st.n, i, 1, p.at))]
                      ELSE ProbeLoop(buf,
                             [st EXCEPT !.rd = f.rd,
                                        !.value = Some(f.bit),
                                        !.erase = i,
                                        !.log = @ \o << Event("probe", st.n, i, 1, p.at),
                                                        Event("fill", st.n, i, f.bit, f.at) >>,
                                        !.decl = @ \cup {<< st.n, i, f.bit >>}],
                             q, i + 1)
             ELSE ProbeLoop(buf,
                    [st EXCEPT !.rd = p.rd,
                               !.log = Append(@, Event("probe", st.n, i, 0, p.at))],
                    q, i + 1)
    ELSE ProbeLoop(buf, st, q, i + 1)

\* lines 173-183: the bit of pixel st.n, cached or freshly read, into the map
EmitBit(buf, st) ==
    IF ~st.ok THEN st
    ELSE IF st.value # None
    THEN [st EXCEPT !.map = OrBit(@, st.n, st.value[1]),
                    !.log = Append(@, Event("cached", st.n, st.erase, st.value[1], st.rd.pos))]
    ELSE LET r == ReadBit(buf, st.rd)
         IN  IF ~r.ok
             THEN [st EXCEPT !.ok = FALSE, !.rd = r.rd]
             ELSE [st EXCEPT !.rd = r.rd,
                             !.map = OrBit(@, st.n, r.bit),
                             !.raws = Append(@, r.bit),
                             !.log = Append(@, Event("raw", st.n, Levels, r.bit, r.at))]

\* lines 184-191, from level i on
RECURSIVE EraseLoop(_, _, _)
EraseLoop(st, q, i) ==
    IF i = Len(q) \/ ~st.ok THEN st
    ELSE IF StartsBlock(q, i) /\ st.erase = i
    THEN EraseLoop([st EXCEPT !.value = None, !.erase = -1], q, i + 1)
    ELSE EraseLoop(st, q, i + 1)

\* lines 149-192: one iteration of the pixel loop
PixelStep(buf, st) ==
    LET q == Q(st.n)
        done == EraseLoop(EmitBit(buf, ProbeLoop(buf, st, q, 0)), q, 0)
    IN  IF done.ok THEN [done EXCEPT !.n = @ + 1] ELSE done

\* iterations of the loop: up to `left` of them, to the end of the range or
\* to a panic
RECURSIVE PixelLoop(_, _, _)
PixelLoop(buf, st, left) ==
    IF ~st.ok \/ left = 0 \/ st.n >= Pixels THEN st
    ELSE PixelLoop(buf, PixelStep(buf, st), left - 1)

(***************************************************************************)
(* The record and the raster, lines 120-125 and 193-195.                   *)
(***************************************************************************)
Character(x, y, code, data) ==
    [x_offset |-> x, y_offset |-> y, control_code |-> code, graphical_data |-> data]

\* the bytes of a word most significant first
LeByteBig(w, j) ==
    LET f[i \in 0..8] ==
            IF i = 0 THEN 0
            ELSE f[i - 1] + (IF (8 * (7 - j) + i - 1) \in w THEN Pow(2, i - 1) ELSE 0)
    IN  f[8]

\* byte j (0 = least significant) of a 64-bit word: u64::to_le_bytes
LeByte(w, j) ==
    LET f[i \in 0..8] ==
            IF i = 0 THEN 0
            ELSE f[i - 1] + (IF (8 * j + i - 1) \in w THEN Pow(2, i - 1) ELSE 0)
    IN  f[8]

\* the 64 words flattened into raster_data
RasterData(mp) ==
    [k \in 1..RasterBytes |-> LeByte(mp[(k - 1) \div 8], (k - 1) % 8)]

\* a control record that keeps the offsets of the last graphical unit
ControlRecordKeepsOffsets(code) == Character(x_offset, y_offset, Some(code), None)

\* lines 204-209 and 196-201: the two records decode pushes
ControlRecord(code) == Character(0, 0, Some(code), None)

GraphicalRecord(x, y, mp) == Character(x, y, None, Some(RasterData(mp)))

EmptyMap == [w \in 0..(Words - 1) |-> {}]

\* a pad that stops one bit before the multiple of 8
PadBitsShort(bc) == 7 - (bc % 8)

\* line 202: the argument of the skip after a graphical unit
PadBits(bc) == 8 - (bc % 8)

(***************************************************************************)
(* The input buffers.  Short buffers are all byte sequences over           *)
(* ShortBytes up to MaxShort bytes, and every one-byte buffer.             *)
(***************************************************************************)
ShortBytes == {0, 5, 42, 127, 128, 144, 151, 255}

RECURSIVE SeqsUpTo(_, _)
SeqsUpTo(S, k) ==
    IF k = 0 THEN {<< >>}
    ELSE LET shorter == SeqsUpTo(S, k - 1)
         IN  shorter \cup {Append(s, b) : s \in {t \in shorter : Len(t) = k - 1}, b \in S}

ShortInputs == SeqsUpTo(ShortBytes, MaxShort) \cup {<< b >> : b \in 0..255}

(***************************************************************************)
(* Long buffers hold one graphical unit built from a plan: the flags and   *)
(* offsets, which probes answer 1 (the first k blocks of level h), the     *)
(* pixel pattern, and the value given to the bits the reader drops.  The   *)
(* unit may follow a control byte and be followed by control bytes, or be  *)
(* cut short.                                                              *)
(***************************************************************************)
BlockSize(i) == Pow(4, Levels - i)

Declared(plan, m, i) ==
    /\ i = plan.h
    /\ StartsBlock(Q(m), i)
    /\ m \div BlockSize(i) < plan.k

PatBit(pat, m) ==
    IF pat < 2 THEN pat ELSE IF (m + m \div 64) % pat = 0 THEN 1 ELSE 0

Zeros(k) == [j \in 1..k |-> 0]

\* the data bits of pixel m: its probes, then a fill bit or a raw bit
PixelBits(plan, m) ==
    LET q == Q(m)
        starts == {i \in 0..(Levels - 1) : StartsBlock(q, i)}
        lo == IF starts = {} THEN Levels ELSE CHOOSE i \in starts : \A j \in starts : i <= j
    IN  IF plan.h >= lo /\ Declared(plan, m, plan.h)
        THEN Zeros(plan.h - lo) \o << 1, PatBit(plan.pat, m) >>
        ELSE Zeros(Levels - lo) \o << PatBit(plan.pat, m) >>

RECURSIVE BodyBits(_, _, _)
BodyBits(plan, lo, hi) ==
    IF hi = lo + 1 THEN PixelBits(plan, lo)
    ELSE LET mid == (lo + hi) \div 2
         IN  BodyBits(plan, lo, mid) \o BodyBits(plan, mid, hi)

BitsOf(v, width) == [j \in 1..width |-> (v \div Pow(2, width - j)) % 2]

UnitBits(plan) ==
    << 1, Bit(plan.fx), Bit(plan.fy) >>
    \o (IF plan.fx THEN BitsOf(plan.xv, FieldBits) ELSE << >>)
    \o (IF plan.fy THEN BitsOf(plan.yv, FieldBits) ELSE << >>)
    \o BodyBits(plan, 0, Pixels)

PackByte(bits) ==
    LET f[i \in 0..8] == IF i = 0 THEN 0 ELSE 2 * f[i - 1] + bits[i]
    IN  f[8]

\* the bytes of a unit: 8 data bits in the first byte, then 7 per byte after
\* one dropped bit; the last byte is filled with zeros
Frame(d, cont) ==
    LET rest == Len(d) - 8
        nb == 1 + (rest + 6) \div 7
    IN  [j \in 1..nb |->
            IF j = 1 THEN PackByte(SubSeq(d, 1, 8))
            ELSE PackByte(<< cont >> \o
                     [i \in 1..7 |-> IF 8 + 7 * (j - 2) + i <= Len(d)
                                     THEN d[8 + 7 * (j - 2) + i] ELSE 0])]

Plan(fx, fy, xv, yv, h, k, pat, cont) ==
    [fx |-> fx, fy |-> fy, xv |-> xv, yv |-> yv, h |-> h, k |-> k, pat |-> pat,
     cont |-> cont]

\* which probes answer 1: the first k blocks of level h (level 6: none)
Declarations ==
    {<< 6, 0 >>, << 0, 1 >>, << 1, 2 >>, << 2, 1 >>, << 3, 64 >>, << 4, 3 >>, << 5, 1024 >>}

Plans ==
    { Plan(f[1], f[2], 100, 67, hk[1], hk[2], 3, 0) :
          f \in BOOLEAN \X BOOLEAN, hk \in Declarations }
    \cup { Plan(FALSE, FALSE, 0, 0, 6, 0, pat, 1) : pat \in {0, 1, 2, 5} }
    \cup { Plan(TRUE, TRUE, 27, 31, 5, 1024, 2, 1) }

Trailer(k) == [j \in 1..k |-> 4 + j]

LongInputs ==
    { Frame(UnitBits(p), p.cont) \o Trailer(k) : p \in Plans, k \in {0, MaxTail} }
    \cup { << 5 >> \o Frame(UnitBits(Plan(FALSE, FALSE, 0, 0, 0, 1, 0, 0)), 0) }

CutInputs ==
    { SubSeq(Frame(UnitBits(Plan(FALSE, TRUE, 0, 67, 6, 0, 3, 0)), 0), 1, c) :
          c \in {3, 40} }

\* one graphical selector byte followed by a repeated byte
Fill(head, b, len) == << head >> \o [j \in 1..len |-> b]

FillInputs == { Fill(144, 51, 770), Fill(192, 85, 772) }

Inputs == ShortInputs \cup LongInputs \cup CutInputs \cup FillInputs

(***************************************************************************)
(* decode(), lines 127-213.                                                *)
(***************************************************************************)
Init ==
    /\ input \in Inputs
    /\ pos = 0
    /\ bit_count = 0
    /\ output = << >>
    /\ pc = "loop"
    /\ x_offset = 0
    /\ y_offset = 0
    /\ map = EmptyMap
    /\ value = None
    /\ erase = -1
    /\ n = 0
    /\ trace = << >>
    /\ raws = << >>
    /\ decl = {}
    /\ body = 0

\* line 133-135: the selector bit, read from the underlying reader itself
Selector ==
    /\ pc = "loop"
    /\ LET r == RawReadBit(input, pos)
       IN  /\ pos' = r.pos
           /\ IF r.ok
              THEN /\ bit_count' = bit_count + 1
                   /\ pc' = IF r.bit = 1 THEN "header" ELSE "control"
                   /\ trace' = << Event("selector", -1, 0, r.bit, pos) >>
              ELSE /\ bit_count' = bit_count
                   /\ pc' = "done"
                   /\ trace' = << >>
    /\ UNCHANGED << input, output, x_offset, y_offset, map, value, erase, n,
                    raws, decl, body >>

\* lines 204-209: the control branch
Control ==
    /\ pc = "control"
    /\ LET c == Read(input, [bit_count |-> bit_count, pos |-> pos], FieldBits)
       IN  /\ bit_count' = c.rd.bit_count
           /\ pos' = c.rd.pos
           /\ trace' = FieldEvents(input, "code", c.ats)
           /\ IF c.ok
              THEN /\ output' = Append(output, ControlRecord(c.val))
                   /\ pc' = "loop"
              ELSE /\ output' = output
                   /\ pc' = "panic"
    /\ UNCHANGED << input, x_offset, y_offset, map, value, erase, n, raws, decl, body >>

\* lines 136-148: the flags, the offsets, and the locals of the pixel loop
Header ==
    /\ pc = "header"
    /\ LET fx == ReadBit(input, [bit_count |-> bit_count, pos |-> pos])
           fy == ReadBit(input, fx.rd)
           hx == IF fx.ok /\ fy.ok /\ fx.bit = 1
                 THEN Read(input, fy.rd, FieldBits)
                 ELSE [ok |-> fx.ok /\ fy.ok, val |-> 0, rd |-> fy.rd, ats |-> << >>]
           hy == IF hx.ok /\ fy.bit = 1
                 THEN ReadSigned(input, hx.rd, FieldBits)
                 ELSE [ok |-> hx.ok, val |-> 0, rd |-> hx.rd, ats |-> << >>]
           last == IF ~fx.ok THEN fx.rd ELSE IF ~fy.ok THEN fy.rd
                   ELSE IF ~hx.ok THEN hx.rd ELSE hy.rd
       IN  /\ bit_count' = last.bit_count
           /\ pos' = last.pos
           /\ trace' = IF fx.ok /\ fy.ok
                       THEN << Event("flag", -1, 0, fx.bit, fx.at),
                               Event("flag", -1, 1, fy.bit, fy.at) >>
                            \o FieldEvents(input, "x", hx.ats)
                            \o FieldEvents(input, "y", hy.ats)
                       ELSE << >>
           /\ IF hy.ok
              THEN /\ x_offset' = hx.val
                   /\ y_offset' = hy.val
                   /\ map' = EmptyMap
                   /\ value' = None
                   /\ erase' = -1
                   /\ n' = 0
                   /\ raws' = << >>
                   /\ decl' = {}
                   /\ body' = 0
                   /\ pc' = "pixel"
              ELSE /\ pc' = "panic"
                   /\ UNCHANGED << x_offset, y_offset, map, value, erase, n, raws,
                                   decl, body >>
    /\ UNCHANGED << input, output >>

\* lines 149-192: the 64 iterations of the pixel loop that fill one word of map
Row ==
    /\ pc = "pixel"
    /\ \E st \in {PixelLoop(input,
                           [ok |-> TRUE, rd |-> [bit_count |-> bit_count, pos |-> pos],
                            value |-> value, erase |-> erase, map |-> map, n |-> n,
                            log |-> << >>, raws |-> raws, decl |-> decl],
                           RowPixels)} :
           /\ bit_count' = st.rd.bit_count
           /\ pos' = st.rd.pos
           /\ value' = st.value
           /\ erase' = st.erase
           /\ map' = st.map
           /\ n' = st.n
           /\ trace' = st.log
           /\ raws' = st.raws
           /\ decl' = st.decl
           /\ body' = body + Cardinality({j \in 1..Len(st.log) : st.log[j].kind # "cached"})
           /\ pc' = IF ~st.ok THEN "panic"
                    ELSE IF st.n >= Pixels THEN "finish" ELSE "pixel"
    /\ UNCHANGED << input, output, x_offset, y_offset >>

\* lines 193-202: the raster, the record, and the skip to the next multiple of 8
Finish ==
    /\ pc = "finish"
    /\ LET k == PadBits(bit_count)
           s == Skip(input, [bit_count |-> bit_count, pos |-> pos], k)
       IN  /\ output' = Append(output, GraphicalRecord(x_offset, y_offset, map))
           /\ bit_count' = s.rd.bit_count
           /\ pos' = s.rd.pos
           /\ trace' = << [kind |-> "skip", bits |-> k, ok |-> s.ok, at |-> pos,
                            bc |-> bit_count] >>
    /\ pc' = "loop"
    /\ UNCHANGED << input, x_offset, y_offset, map, value, erase, n, raws, decl, body >>

Next == Selector \/ Control \/ Header \/ Row \/ Finish

Spec == Init /\ [][Next]_vars

(***************************************************************************)
(* What the claims speak of.                                               *)
(***************************************************************************)
\* pixel m of the 64 words
Pix(mp, m) == IF Shift(m) \in mp[WordIndex(m)] THEN 1 ELSE 0

\* pixel m of a 512-byte raster: bit m mod 8 of byte m div 8
RasterBit(data, m) == (data[(m \div 8) + 1] \div Pow(2, m % 8)) % 2

Returned == pc \in {"done", "panic"}

\* the last step was the skip that ends a graphical unit
Padded == trace # << >> /\ trace[1].kind = "skip"

BlankRecord == Character(0, 0, None, Some([k \in 1..512 |-> 0]))

\* Scenario B: selector 1, flags 0 0, probe 1, fill 0, three pad bits
ScenarioB == {<< 144 + pad >> : pad \in 0..7}

AllControl(buf) == \A i \in 1..Len(buf) : buf[i] < 128

IsControl(rec) == rec.control_code # None
IsGraphical(rec) == rec.graphical_data # None

(***************************************************************************)
(* C1.  Best case: when the level-0 probe of pixel 0 returns 1, the raster *)
(* decode produces is the fill bit 4096 times and the bitmap body took 2   *)
(* data bits.                                                              *)
(***************************************************************************)
C1_BestCase ==
    pc = "finish" =>
        \A d \in decl :
            (d[1] = 0 /\ d[2] = 0) =>
                /\ body = 2
                /\ RasterData(map) = [k \in 1..512 |-> 255 * d[3]]

(***************************************************************************)
(* C2.  Truncation never crashes: a read that fails inside a unit ends the *)
(* loop and decode returns; it never panics.                               *)
(***************************************************************************)
C2_TruncationReturns == pc # "panic"

(***************************************************************************)
(* C3.  Scenario B: a one-byte buffer holding the blank graphical unit     *)
(* decodes to exactly one Graphical record, offsets (0, 0), 512 zero bytes.*)
(***************************************************************************)
C3_BlankGraphical ==
    (input \in ScenarioB /\ Returned) => (pc = "done" /\ output = << BlankRecord >>)

(***************************************************************************)
(* C4.  Control records: a buffer of bytes below 128 decodes, without      *)
(* panic, to one Control record per byte, in order, with the byte as code, *)
(* offsets 0 and no raster.                                                *)
(***************************************************************************)
C4_ControlRecords ==
    AllControl(input) =>
        /\ pc # "panic"
        /\ Len(output) <= Len(input)
        /\ \A i \in 1..Len(output) :
               output[i] = [x_offset |-> 0, y_offset |-> 0,
                            control_code |-> << input[i] >>, graphical_data |-> << >>]
        /\ (pc = "done" => Len(output) = Len(input))

C4_Witness ==
    /\ pc = "done"
    /\ AllControl(input)
    /\ Len(input) >= 2
    /\ input[1] = 5
    /\ input[2] = 127
    /\ Len(output) = Len(input)

(***************************************************************************)
(* C5.  Scenario D: a control unit followed by the blank graphical unit of *)
(* Scenario B decodes to exactly two records, Control then Graphical.      *)
(***************************************************************************)
C5_MixedOrder ==
    (Len(input) = 2 /\ input[1] = 5 /\ << input[2] >> \in ScenarioB /\ Returned) =>
        (pc = "done" /\ output = << ControlRecord(5), BlankRecord >>)

(***************************************************************************)
(* C6.  Alignment: after the pad step of a graphical unit bit_count is a   *)
(* multiple of 8.                                                          *)
(***************************************************************************)
C6_Alignment == Padded => bit_count % 8 = 0

C6_Witness ==
    /\ Padded
    /\ x_offset # 0
    /\ y_offset # 0
    /\ Cardinality(decl) >= 2
    /\ IsGraphical(output[Len(output)])

(***************************************************************************)
(* C7.  Pad width: the skip after a graphical unit discards 0 to 7 bits,   *)
(* and none when the body ended on a multiple of 8.                        *)
(***************************************************************************)
C7_PadWidth ==
    Padded =>
        /\ trace[1].bits \in 0..7
        /\ (trace[1].at % 8 = 0 => pos = trace[1].at)

(***************************************************************************)
(* C8.  Worst case: while every probe of the unit has returned 0, each     *)
(* pixel emitted took one raw bit, pixel m is the m-th raw bit read, and   *)
(* the finished body has read 4096 raw bits.                               *)
(***************************************************************************)
C8_WorstCase ==
    (pc \in {"pixel", "finish"} /\ decl = {}) =>
        /\ Len(raws) = n
        /\ \A m \in 0..(n - 1) : Pix(map, m) = raws[m + 1]
        /\ (pc = "finish" => Len(raws) = 4096)

C8_Witness ==
    /\ pc = "finish"
    /\ decl = {}
    /\ \E i, j \in 1..8 : raws[i] = 0 /\ raws[j] = 1

(***************************************************************************)
(* C9.  Exactness: the pixel loop ends after 4096 iterations, the          *)
(* iterations of a step emit the pixels n, n+1, ... once each, in order,   *)
(* and change no other pixel of the map, and every raster pushed has 512   *)
(* bytes.                                                                  *)
(***************************************************************************)
IsEmission(e) == e.kind \in {"raw", "cached"}

C9_Exactness ==
    /\ [](pc = "finish" => n = 4096)
    /\ [](\A i \in 1..Len(output) :
              IsGraphical(output[i]) => Len(output[i].graphical_data[1]) = 512)
    /\ [][pc = "pixel" =>
              /\ n' >= n
              /\ LET em == SelectSeq(trace', IsEmission)
                 IN  /\ Len(em) = n' - n
                     /\ \A j \in 1..Len(em) : em[j].n = n + j - 1
              /\ \A m \in 0..4095 :
                     (m < n \/ m >= n') => Pix(map', m) = Pix(map, m)]_vars

C9_Witness ==
    /\ Padded
    /\ Cardinality(decl) = 1024
    /\ Len(output) = 1
    /\ \E k \in 1..512 : output[1].graphical_data[1][k] # 0

(***************************************************************************)
(* C10.  Record shape: every record holds exactly one of control_code and  *)
(* graphical_data, and a record with a control code has offsets (0, 0).    *)
(***************************************************************************)
C10_RecordShape ==
    \A i \in 1..Len(output) :
        /\ (output[i].control_code = << >>) # (output[i].graphical_data = << >>)
        /\ output[i].control_code # << >> =>
               (output[i].x_offset = 0 /\ output[i].y_offset = 0)

C10_Witness ==
    /\ Len(output) >= 2
    /\ IsGraphical(output[1])
    /\ output[1].x_offset # 0
    /\ IsControl(output[Len(output)])

(***************************************************************************)
(* C11.  Horizontal offset range: the x_offset of every Graphical record   *)
(* in the output lies in -64..63.                                          *)
(***************************************************************************)
C11_OffsetRange ==
    \A i \in 1..Len(output) :
        IsGraphical(output[i]) => output[i].x_offset \in -64..63

(***************************************************************************)
(* C12.  Clean end of input: decode returns only from a selector read that *)
(* fails at the end of the buffer, with the output as it was; before that  *)
(* every unit completed (a step back to the selector read) has appended    *)
(* exactly one record and no other step has changed the output, so the     *)
(* output returned is the records of the completed units, in order; the    *)
(* empty buffer returns the empty sequence.                                *)
(***************************************************************************)
C12_CleanEnd ==
    /\ []((pc = "done" /\ input = << >>) => output = << >>)
    /\ [](pc = "done" => pos = 8 * Len(input))
    /\ [][/\ pc' = "done" =>
                /\ pc = "loop"
                /\ pos >= 8 * Len(input)
                /\ output' = output
          /\ pc' = "loop" =>
                /\ pc \in {"control", "finish"}
                /\ Len(output') = Len(output) + 1
                /\ SubSeq(output', 1, Len(output)) = output
                /\ IsControl(output'[Len(output')]) <=> pc = "control"
          /\ pc' \notin {"loop", "done"} => output' = output]_vars

C12_Witness ==
    /\ pc = "done"
    /\ Len(input) > 2
    /\ Len(output) = 2
    /\ IsControl(output[1])
    /\ IsGraphical(output[2])

(***************************************************************************)
(* C13.  Termination: on every buffer decode finishes by returning its     *)
(* output: wherever decode has stopped, it has returned.                   *)
(***************************************************************************)
C13_Termination == Returned => pc = "done"

(***************************************************************************)
(* C14.  Homogeneous block persistence: once a probe of level L at pixel n *)
(* has returned 1 with fill bit f, the pixels n .. n + 4^(6-L) - 1 all     *)
(* equal f, no probe and no raw pixel bit is read for the later pixels of  *)
(* the block, and the cache is still set while the loop is inside the      *)
(* block.                                                                  *)
(***************************************************************************)
InsideBlock(d, m) == d[1] < m /\ m < d[1] + BlockSize(d[2])

C14_BlockPersistence ==
    /\ pc = "finish" =>
           \A d \in decl :
               \A m \in d[1]..(d[1] + BlockSize(d[2]) - 1) : Pix(map, m) = d[3]
    /\ pc \in {"pixel", "finish"} =>
           \A j \in 1..Len(trace) :
               trace[j].kind \in {"probe", "raw"} =>
                   \A d \in decl : ~InsideBlock(d, trace[j].n)
    /\ pc = "pixel" =>
           \A d \in decl : InsideBlock(d, n) => (value = Some(d[3]) /\ erase = d[2])

(***************************************************************************)
(* C15.  Continuation bit stripping.  As stated: no bit handed to the      *)
(* decoder as data, the selector included, is the first bit of a byte.     *)
(* As the code has it: the selector is the first bit of its byte, every    *)
(* other data bit is not the first bit of a byte, and between two data     *)
(* bits of a step exactly the first bits of the bytes between them are     *)
(* dropped.                                                                *)
(***************************************************************************)
Delivered(e) ==
    e.kind \in {"selector", "flag", "x", "y", "code", "probe", "fill", "raw"}

C15_SelectorStripped ==
    \A j \in 1..Len(trace) : Delivered(trace[j]) => trace[j].at % 8 # 0

C15_Framing ==
    \E got \in {SelectSeq(trace, Delivered)} :
        /\ \A j \in 1..Len(got) : (got[j].at % 8 = 0) <=> (got[j].kind = "selector")
        /\ \A j \in 1..(Len(got) - 1) :
               got[j + 1].at = got[j].at + (IF got[j].at % 8 = 7 THEN 2 ELSE 1)

C15_Witness ==
    /\ pc = "pixel"
    /\ y_offset < 0
    /\ \E j \in 1..(Len(trace) - 1) :
           /\ trace[j].kind = "raw"
           /\ trace[j].at % 8 = 7
           /\ trace[j + 1].kind = "raw"
           /\ trace[j + 1].at = trace[j].at + 2

(***************************************************************************)
(* C16.  Probe order: the bits read for one pixel are the probes of the    *)
(* levels at which the pixel starts a block, coarsest first, each after a  *)
(* probe that returned 0; a probe that returned 1 is followed by one fill  *)
(* bit and the pixel; after the probe of level 5 returned 0, or for a      *)
(* pixel that starts no block, the raw pixel bit is read with no probe.    *)
(***************************************************************************)
IsPixelEvent(e) == e.kind \in {"probe", "fill", "raw", "cached"}

\* the coarsest level at which pixel m starts a block, 6 when it starts none
FirstLevel(m) ==
    IF m % 4 # 0 THEN 6
    ELSE CHOOSE i \in 0..5 :
             /\ m % Pow(4, 6 - i) = 0
             /\ (i = 0 \/ m % Pow(4, 7 - i) # 0)

C16_ProbeOrder ==
    \E px \in {SelectSeq(trace, IsPixelEvent)} :
        \A j \in 1..Len(px) :
            /\ px[j].kind = "probe" => px[j].n % Pow(4, 6 - px[j].level) = 0
            /\ IF j = 1 \/ px[j - 1].n # px[j].n
               THEN \/ px[j].kind = "cached"
                    \/ /\ px[j].kind = "probe"
                       /\ px[j].level = FirstLevel(px[j].n)
                    \/ /\ px[j].kind = "raw"
                       /\ FirstLevel(px[j].n) = 6
               ELSE /\ px[j].kind = "probe" =>
                           /\ px[j - 1].kind = "probe"
                           /\ px[j - 1].bit = 0
                           /\ px[j].level = px[j - 1].level + 1
                    /\ px[j].kind = "fill" =>
                           /\ px[j - 1].kind = "probe"
                           /\ px[j - 1].bit = 1
                           /\ px[j].level = px[j - 1].level
                    /\ px[j].kind = "raw" =>
                           /\ px[j - 1].kind = "probe"
                           /\ px[j - 1].bit = 0
                           /\ px[j - 1].level = 5
                    /\ px[j].kind = "cached" => px[j - 1].kind = "fill"
            /\ j < Len(px) =>
                   IF px[j].kind \in {"raw", "cached"}
                   THEN px[j + 1].n = px[j].n + 1
                   ELSE px[j + 1].n = px[j].n

C16_Witness ==
    /\ pc = "pixel"
    /\ Len(trace) > 8
    /\ trace[4].kind = "probe" /\ trace[4].level = 3 /\ trace[4].bit = 0
    /\ trace[5].kind = "probe" /\ trace[5].level = 4 /\ trace[5].bit = 1
    /\ trace[6].kind = "fill"
    /\ trace[7].kind = "cached"
    /\ trace[8].kind = "raw" /\ trace[8].n = 1

(***************************************************************************)
(* C17.  Raster layout: the bit emitted for pixel n is bit n mod 64 of     *)
(* word n div 64 and bit n mod 8 of byte n div 8 of the 512 bytes; the     *)
(* bits of pixels not yet emitted are 0; the raster pushed is the raster   *)
(* of the words.                                                           *)
(***************************************************************************)
C17_RasterLayout ==
    /\ pc \in {"pixel", "finish"} =>
           \E data \in {RasterData(map)} :
               /\ \A j \in 1..Len(trace) :
                      trace[j].kind \in {"raw", "cached"} =>
                          /\ trace[j].bit = IF (trace[j].n % 64) \in map[trace[j].n \div 64]
                                            THEN 1 ELSE 0
                          /\ trace[j].bit = RasterBit(data, trace[j].n)
               /\ \A m \in n..4095 : RasterBit(data, m) = 0
    /\ Padded =>
           \E data \in {output[Len(output)].graphical_data[1]} :
               \A m \in 0..4095 : RasterBit(data, m) = Pix(map, m)

C17_Witness ==
    /\ Padded
    /\ decl = {}
    /\ output[Len(output)].graphical_data[1][1] \notin {0, 255}
    /\ output[Len(output)].graphical_data[1][2] # output[Len(output)].graphical_data[1][1]

(***************************************************************************)
(* C18.  skip bypasses framing: the skip after a graphical unit advances   *)
(* bit_count by its argument, discards that many bits of the underlying    *)
(* source, and delivers no bit.                                            *)
(***************************************************************************)
C18_SkipExact ==
    Padded =>
        /\ Len(trace) = 1
        /\ bit_count = trace[1].bc + trace[1].bits
        /\ pos = trace[1].at + trace[1].bits

(***************************************************************************)
(* C19.  Unit alignment: whenever decode is about to read a selector bit,  *)
(* bit_count is a multiple of 8 and is the number of bits consumed from    *)
(* the underlying source; the 7 bits of a control code come from the byte  *)
(* of their selector.                                                      *)
(***************************************************************************)
C19_UnitAlignment ==
    pc = "loop" =>
        /\ bit_count % 8 = 0
        /\ bit_count = pos
        /\ (trace # << >> /\ trace[1].kind = "code") =>
               /\ Len(trace) = 7
               /\ \A j \in 1..7 : trace[j].at = pos - 8 + j

(***************************************************************************)
(* C20.  Output size bound: the output never holds more records than the   *)
(* buffer has bytes; each record stands for at least 8 bits consumed from  *)
(* the underlying source.                                                  *)
(***************************************************************************)
C20_SizeBound ==
    /\ Len(output) <= Len(input)
    /\ 8 * Len(output) <= pos
    /\ pos <= 8 * Len(input)

C20_Witness ==
    /\ pc = "done"
    /\ Len(output) = 3
    /\ IsGraphical(output[1])
    /\ IsControl(output[2])
    /\ IsControl(output[3])
    /\ Len(input) > 700
=============================================================================
